---- MODULE Spec2Model ----
(***************************************************************************)
(* State-machine models of the two scripts of the repository:              *)
(*                                                                         *)
(*   python/compose.py  interactive field file composition (Python 2)      *)
(*   python/wavy.py     wavy session file generator                        *)
(*                                                                         *)
(* Both are straight-line scripts.  Each statement group of a script is    *)
(* one action; pc names the statement the interpreter executes next.       *)
(* Strings that the scripts build by concatenation (file names) are        *)
(* sequences of one-character strings, so that two names are equal exactly *)
(* when the scripts would address the same file.                           *)
(***************************************************************************)
EXTENDS Integers, Sequences, FiniteSets, TLC

VARIABLES
    prog,            \* "compose" or "wavy": the script being run
    pc,              \* next statement of the script
    argc,            \* len(sys.argv)
    status,          \* process exit status; -1 while running
    exc,             \* uncaught exception that ended the run, or "none"
    stdout,          \* what has been printed / prompted, in order
    \* ---- compose.py
    mode,            \* 0 until set, then 1 or 2
    file1, file2,    \* headers of the opened input files
    wantedBound,     \* whether the name `wanted` is bound
    wanted,          \* list of tokens, each a sequence of characters
    outfile,         \* output file name typed by the operator
    ofile,           \* the output Fieldfile object
    \* ---- wavy.py
    session,         \* sys.argv[3]
    lenx, leny,      \* len(x), len(y)
    fs,              \* the working directory: file name -> content
    rfile, sfile,    \* names of the files the handles refer to, NoFile if closed
    rbuf, sbuf,      \* data written to a handle and not yet flushed
    i, j, k,         \* loop variables and curve counter
    ran,             \* external tools that ran to completion
    section,         \* the CURVES section as written to curves.txt
    log              \* the I/O steps taken so far with the handles open then

cvars == <<mode, file1, file2, wantedBound, wanted, outfile, ofile>>
wvars == <<session, lenx, leny, fs, rfile, sfile, rbuf, sbuf, i, j, k, ran,
           section, log>>
vars  == <<prog, pc, argc, status, exc, stdout, cvars, wvars>>

-----------------------------------------------------------------------------
(* Bounds of the model.                                                    *)

MaxDim  == 2     \* geometry values nr, ns, nel, nz range over 1..MaxDim
MaxLine == 3     \* longest line the operator types at the field prompt
MaxLenX == 3     \* len(x) ranges over 2..MaxLenX, and the script's own 11
MaxLenY == 3     \* len(y) ranges over 2..MaxLenY, and the script's own 15

(* Program constants.                                                      *)

NumX == 11       \* np.linspace (0.0, 1.0, num=11)
NumY == 15       \* number of entries of the y array
Nx   == 960      \* points per wave<i>.geo file

-----------------------------------------------------------------------------
(* compose.py                                                              *)

NoName == <<>>

Dims == 1..MaxDim

Geometries == [nr : Dims, ns : Dims, nel : Dims, nz : Dims]

\* Field name strings of the input files the model reads.
FieldStrings == { <<"u", "v", "p">>, <<"u", "c">> }

Headers == [geometry : Geometries, fields : FieldStrings]

NoHeader == [geometry |-> [nr |-> 0, ns |-> 0, nel |-> 0, nz |-> 0],
             fields |-> <<>>]

\* Characters the operator may type at the field prompt.
Alphabet == {" ", "u", "v", "x"}

Lines == UNION { [1..n -> Alphabet] : n \in 0..MaxLine }

OutNames == { <<"o">> }

IsSpace(c) == c = " "

\* re.findall(r'\S+', s): the maximal runs of non-whitespace characters of
\* s, left to right.
RECURSIVE FindAll(_)
FindAll(s) ==
    IF s = <<>> THEN <<>>
    ELSE IF IsSpace(Head(s)) THEN FindAll(Tail(s))
    ELSE LET rest == FindAll(Tail(s))
         IN  IF Len(s) > 1 /\ ~IsSpace(s[2])
             THEN <<(<<Head(s)>> \o Head(rest))>> \o Tail(rest)
             ELSE <<(<<Head(s)>>)>> \o rest

\* Variant of Conform with the comparison of nz left out.
ConformNoNz(h1, h2) ==
    /\ h1.geometry.nr  = h2.geometry.nr
    /\ h1.geometry.ns  = h2.geometry.ns
    /\ h1.geometry.nel = h2.geometry.nel

\* The condition of the if statement at lines 28-31, negated.
Conform(h1, h2) ==
    /\ h1.geometry.nr  = h2.geometry.nr
    /\ h1.geometry.ns  = h2.geometry.ns
    /\ h1.geometry.nz  = h2.geometry.nz
    /\ h1.geometry.nel = h2.geometry.nel

\* sys.exit(n) and an uncaught exception both end the run; the interpreter
\* exits with status 1 after an uncaught exception.
Exit(n, e) ==
    /\ pc' = "exit"
    /\ status' = n
    /\ exc' = e

\* Lines 21-23.
ArgsMode1 ==
    /\ prog = "compose" /\ pc = "args"
    /\ argc = 2
    /\ mode' = 1
    /\ \E h \in Headers : file1' = h
    /\ pc' = "select"
    /\ UNCHANGED <<prog, argc, status, exc, stdout, file2, wantedBound,
                   wanted, outfile, ofile, wvars>>

\* Lines 24-33.
ArgsMode2 ==
    /\ prog = "compose" /\ pc = "args"
    /\ argc = 3
    /\ mode' = 2
    /\ \E h1 \in Headers, h2 \in Headers :
          /\ file1' = h1
          /\ file2' = h2
          /\ IF ~Conform(h1, h2)
             THEN /\ stdout' = Append(stdout, "The two input files do not conform")
                  /\ Exit(1, "none")
             ELSE /\ pc' = "select"
                  /\ UNCHANGED <<stdout, status, exc>>
    /\ UNCHANGED <<prog, argc, wantedBound, wanted, outfile, ofile, wvars>>

\* Lines 34-36.
ArgsUsage ==
    /\ prog = "compose" /\ pc = "args"
    /\ argc \notin {2, 3}
    /\ stdout' = Append(stdout, "Usage: compose.py file.fld [anotherfile.fld]")
    /\ Exit(1, "none")
    /\ UNCHANGED <<prog, argc, cvars, wvars>>

\* Lines 38-44: only in mode 1 is the operator asked for fields, and only
\* then is `wanted` bound.
SelectFields ==
    /\ prog = "compose" /\ pc = "select"
    /\ IF mode = 1
       THEN \E required_fields \in Lines :
               /\ wanted' = FindAll(required_fields)
               /\ wantedBound' = TRUE
               /\ stdout' = stdout \o <<"Input file contains these fields: indicate the ones you want:",
                                        "file1.hdr.fields", "required_fields", "wanted">>
       ELSE UNCHANGED <<wanted, wantedBound, stdout>>
    /\ pc' = "outname"
    /\ UNCHANGED <<prog, argc, status, exc, mode, file1, file2, outfile,
                   ofile, wvars>>

\* Line 46.
ReadOutfile ==
    /\ prog = "compose" /\ pc = "outname"
    /\ stdout' = Append(stdout, "type in an output file name: ")
    /\ \E name \in OutNames : outfile' = name
    /\ pc' = "open"
    /\ UNCHANGED <<prog, argc, status, exc, mode, file1, file2, wantedBound,
                   wanted, ofile, wvars>>

\* fieldfile.Fieldfile(name, "w", hdr) of the field file codec: the path is
\* opened for writing, the object carries the header and no data yet.
FieldfileW(name, hdr) ==
    [open |-> TRUE, name |-> name, fields |-> hdr.fields, data |-> <<>>]

\* Line 48: a Fieldfile in mode "w" on the typed name, with file1's header.
OpenOutput ==
    /\ prog = "compose" /\ pc = "open"
    /\ ofile' = FieldfileW(outfile, file1)
    /\ pc' = "setfields"
    /\ UNCHANGED <<prog, argc, status, exc, stdout, mode, file1, file2,
                   wantedBound, wanted, outfile, wvars>>

\* Line 49: wanted[0].  NameError when `wanted` was never bound (mode 2),
\* IndexError when the list is empty.
SetFields ==
    /\ prog = "compose" /\ pc = "setfields"
    /\ IF ~wantedBound
       THEN Exit(1, "NameError") /\ UNCHANGED ofile
       ELSE IF wanted = <<>>
       THEN Exit(1, "IndexError") /\ UNCHANGED ofile
       ELSE /\ ofile' = [ofile EXCEPT !.fields = wanted[1]]
            /\ pc' = "print"
            /\ UNCHANGED <<status, exc>>
    /\ UNCHANGED <<prog, argc, stdout, mode, file1, file2, wantedBound,
                   wanted, outfile, wvars>>

\* Lines 50-51.
PrintHeader ==
    /\ prog = "compose" /\ pc = "print"
    /\ stdout' = stdout \o <<"ofile.hdr", "ofile.ntot">>
    /\ pc' = "dict"
    /\ UNCHANGED <<prog, argc, status, exc, cvars, wvars>>

\* Lines 53-54: the name `ff` is bound nowhere in the script, so evaluating
\* ff.fields raises NameError; lines 55-74 are never reached.
BuildDict ==
    /\ prog = "compose" /\ pc = "dict"
    /\ Exit(1, "NameError")
    /\ UNCHANGED <<prog, argc, stdout, cvars, wvars>>

NextCompose ==
    \/ ArgsMode1
    \/ ArgsMode2
    \/ ArgsUsage
    \/ SelectFields
    \/ ReadOutfile
    \/ OpenOutput
    \/ SetFields
    \/ PrintHeader
    \/ BuildDict

-----------------------------------------------------------------------------
(* wavy.py                                                                 *)

NoFile == <<>>

DigitChars == <<"0", "1", "2", "3", "4", "5", "6", "7", "8", "9">>

\* str(n) for a non-negative integer n.
RECURSIVE Str(_)
Str(n) ==
    IF n < 10 THEN <<DigitChars[n + 1]>>
    ELSE Str(n \div 10) \o <<DigitChars[(n % 10) + 1]>>

\* session+'.rect'
RectName(s) == s \o <<".", "r", "e", "c", "t">>

\* session+'_wavy'
WavyName(s) == s \o <<"_", "w", "a", "v", "y">>

\* 'wave' + str(i) + '.geo'
WaveName(n) == <<"w", "a", "v", "e">> \o Str(n) \o <<".", "g", "e", "o">>

\* 'curves.txt'
CurvesTxt == <<"c", "u", "r", "v", "e", "s", ".", "t", "x", "t">>

\* Session names given on the command line: a plain one, and the two kinds
\* of name that the script also uses for its own files.
Sessions == { <<"s">>, CurvesTxt, WaveName(1) }

\* (len(x), len(y)): the arrays of the script, and smaller grids.
Grids == ((2..MaxLenX) \X (2..MaxLenY)) \cup { <<NumX, NumY>> }

\* One item written to a file: a line of text, or the output of a tool.
Chunk(kind, a, b, c, d) == [kind |-> kind, a |-> a, b |-> b, c |-> c, d |-> d]

Count(content, kind) ==
    Cardinality({n \in 1..Len(content) : content[n].kind = kind})

Content(f, name) == IF name \in DOMAIN f THEN f[name] ELSE <<>>

\* The directory f with file `name` holding `content`.
Put(f, name, content) ==
    [n \in DOMAIN f \cup {name} |-> IF n = name THEN content ELSE f[n]]

\* open (name, 'w'): the file is created, or truncated if it exists.
Create(f, name) == Put(f, name, <<>>)

\* close() of a handle on `name`: the buffered data reaches the file.
Flush(f, name, buf) == Put(f, name, Content(f, name) \o buf)

\* The handles open at this moment.
Handles == {rfile, sfile} \ {NoFile}

\* The I/O steps of the script in the order taken, each with the handles
\* open when it started; repeated operations of one step are one entry.
Step(ev) ==
    log' = IF log # <<>> /\ log[Len(log)].ev = ev
           THEN log
           ELSE Append(log, [ev |-> ev, open |-> Handles])

\* rectmesh reads the point file: what it prints depends on the x and y
\* lines it finds there.
RectmeshOut(input) ==
    <<Chunk("rectmesh", Count(input, "x"), Count(input, "y"), 0, 0)>>

\* mapmesh reads the session file and prints it with the nodes mapped.
MapmeshOut(input) ==
    IF Len(input) = 1 /\ input[1].kind = "rectmesh"
    THEN <<Chunk("mapmesh", input[1].a, input[1].b, 0, 0)>>
    ELSE <<Chunk("mapmesh", 0, 0, 0, 0)>>

\* Variant of GeoRows that stops before the last y-sample.
GeoRowsInterior(ly) == 1..(ly - 2)

\* range(1, len(y)) at line 93.
GeoRows(ly) == 1..(ly - 1)

\* range(Nx) at line 95.
Points == 0..(Nx - 1)

\* (len(x)-1)*(2*(len(y)-2)+1) at line 104.
Declared(lx, ly) == (lx - 1) * (2 * (ly - 2) + 1)

\* range(1, len(y)) at line 108.
Pass1Rows(ly) == 1..(ly - 1)

\* Variant of Pass2Rows that runs over the rows of the first pass.
Pass2RowsAll(ly) == 1..(ly - 1)

\* range(1, len(y)-1) at line 116.
Pass2Rows(ly) == 1..(ly - 2)

\* range(1, len(x)) at lines 109 and 117.
Cols(lx) == 1..(lx - 1)

\* Variant of Elmt1 that takes the element of the next row.
Elmt1Above(r, c, lx) == r * (lx - 1) + c

\* Element of a first-pass entry, line 111.
Elmt1(r, c, lx) == (r - 1) * (lx - 1) + c

\* Element of a second-pass entry, line 119.
Elmt2(r, c, lx) == r * (lx - 1) + c

\* Variant of Wave2 that names the file of the next y-level.
Wave2Next(r) == r + 1

\* Index of the wave file named by a second-pass entry of loop row r,
\* line 120.
Wave2(r) == r

\* Lines 27-30.  float() raises ValueError for an argument that is no number.
WavyArgs ==
    /\ prog = "wavy" /\ pc = "args"
    /\ argc = 4
    /\ \E numeric \in BOOLEAN :
          IF numeric
          THEN pc' = "rect" /\ UNCHANGED <<status, exc>>
          ELSE Exit(1, "ValueError")
    /\ UNCHANGED <<prog, argc, stdout, cvars, wvars>>

\* Lines 31-33.
WavyUsage ==
    /\ prog = "wavy" /\ pc = "args"
    /\ argc # 4
    /\ stdout' = Append(stdout, "Usage: wavy.py <beta_x> <eps_y> session")
    /\ Exit(1, "none")
    /\ UNCHANGED <<prog, argc, cvars, wvars>>

\* Lines 53-55.
OpenRect ==
    /\ prog = "wavy" /\ pc = "rect"
    /\ Step("rect")
    /\ rfile' = RectName(session)
    /\ fs' = Create(fs, RectName(session))
    /\ rbuf' = <<>>
    /\ i' = 0
    /\ pc' = "rect_x"
    /\ UNCHANGED <<prog, argc, status, exc, stdout, cvars, session, lenx,
                   leny, sfile, sbuf, j, k, ran, section>>

\* Lines 56-58, one iteration.
WriteRectX ==
    /\ prog = "wavy" /\ pc = "rect_x"
    /\ i < lenx
    /\ rbuf' = Append(rbuf, Chunk("x", i, 0, 0, 0))
    /\ i' = i + 1
    /\ UNCHANGED <<prog, pc, argc, status, exc, stdout, cvars, session,
                   lenx, leny, fs, rfile, sfile, sbuf, j, k, ran, section,
                   log>>

\* Lines 60-62, after the loop over x.
WriteRectBlank ==
    /\ prog = "wavy" /\ pc = "rect_x"
    /\ ~(i < lenx)
    /\ rbuf' = Append(rbuf, Chunk("nl", 0, 0, 0, 0))
    /\ i' = 0
    /\ pc' = "rect_y"
    /\ UNCHANGED <<prog, argc, status, exc, stdout, cvars, session, lenx,
                   leny, fs, rfile, sfile, sbuf, j, k, ran, section, log>>

\* Lines 63-65, one iteration.
WriteRectY ==
    /\ prog = "wavy" /\ pc = "rect_y"
    /\ i < leny
    /\ rbuf' = Append(rbuf, Chunk("y", i, 0, 0, 0))
    /\ i' = i + 1
    /\ UNCHANGED <<prog, pc, argc, status, exc, stdout, cvars, session,
                   lenx, leny, fs, rfile, sfile, sbuf, j, k, ran, section,
                   log>>

\* Variant of CloseRect without the call of rfile.close().
CloseRectLeftOpen ==
    /\ prog = "wavy" /\ pc = "rect_y"
    /\ ~(i < leny)
    /\ pc' = "session_open"
    /\ UNCHANGED <<prog, argc, status, exc, stdout, cvars, session, lenx,
                   leny, fs, rfile, rbuf, sfile, sbuf, i, j, k, ran, section,
                   log>>

\* Line 67, after the loop over y.
CloseRect ==
    /\ prog = "wavy" /\ pc = "rect_y"
    /\ ~(i < leny)
    /\ fs' = Flush(fs, rfile, rbuf)
    /\ rfile' = NoFile
    /\ rbuf' = <<>>
    /\ pc' = "session_open"
    /\ UNCHANGED <<prog, argc, status, exc, stdout, cvars, session, lenx,
                   leny, sfile, sbuf, i, j, k, ran, section, log>>

\* Line 71.
OpenSession ==
    /\ prog = "wavy" /\ pc = "session_open"
    /\ sfile' = session
    /\ fs' = Create(fs, session)
    /\ sbuf' = <<>>
    /\ pc' = "rectmesh"
    /\ UNCHANGED <<prog, argc, status, exc, stdout, cvars, session, lenx,
                   leny, rfile, rbuf, i, j, k, ran, section, log>>

\* Line 73.  The tool writes to the descriptor of sfile directly.  sp.run
\* raises FileNotFoundError when the executable is not on the path.
RunRectmesh ==
    /\ prog = "wavy" /\ pc = "rectmesh"
    /\ Step("rectmesh")
    /\ \E found \in BOOLEAN :
          IF found
          THEN /\ fs' = Put(fs, sfile, RectmeshOut(Content(fs, RectName(session))))
               /\ ran' = ran \cup {"rectmesh"}
               /\ pc' = "session_close"
               /\ UNCHANGED <<status, exc>>
          ELSE /\ Exit(1, "FileNotFoundError")
               /\ UNCHANGED <<fs, ran>>
    /\ UNCHANGED <<prog, argc, stdout, cvars, session, lenx, leny, rfile,
                   rbuf, sfile, sbuf, i, j, k, section>>

\* Line 75.
CloseSession ==
    /\ prog = "wavy" /\ pc = "session_close"
    /\ fs' = Flush(fs, sfile, sbuf)
    /\ sfile' = NoFile
    /\ sbuf' = <<>>
    /\ pc' = "wavy_open"
    /\ UNCHANGED <<prog, argc, status, exc, stdout, cvars, session, lenx,
                   leny, rfile, rbuf, i, j, k, ran, section, log>>

\* Lines 79-81.
OpenWavy ==
    /\ prog = "wavy" /\ pc = "wavy_open"
    /\ sfile' = WavyName(session)
    /\ fs' = Create(fs, WavyName(session))
    /\ sbuf' = <<>>
    /\ pc' = "mapmesh"
    /\ UNCHANGED <<prog, argc, status, exc, stdout, cvars, session, lenx,
                   leny, rfile, rbuf, i, j, k, ran, section, log>>

\* Line 85.
RunMapmesh ==
    /\ prog = "wavy" /\ pc = "mapmesh"
    /\ Step("mapmesh")
    /\ \E found \in BOOLEAN :
          IF found
          THEN /\ fs' = Put(fs, sfile, MapmeshOut(Content(fs, session)))
               /\ ran' = ran \cup {"mapmesh"}
               /\ pc' = "wavy_close"
               /\ UNCHANGED <<status, exc>>
          ELSE /\ Exit(1, "FileNotFoundError")
               /\ UNCHANGED <<fs, ran>>
    /\ UNCHANGED <<prog, argc, stdout, cvars, session, lenx, leny, rfile,
                   rbuf, sfile, sbuf, i, j, k, section>>

\* Lines 87-93: close, and enter the loop over the wave files.
CloseWavy ==
    /\ prog = "wavy" /\ pc = "wavy_close"
    /\ fs' = Flush(fs, sfile, sbuf)
    /\ sfile' = NoFile
    /\ sbuf' = <<>>
    /\ i' = 1
    /\ pc' = "geo"
    /\ UNCHANGED <<prog, argc, status, exc, stdout, cvars, session, lenx,
                   leny, rfile, rbuf, j, k, ran, section, log>>

\* Lines 93-95: one wave file is opened.
GeoOpen ==
    /\ prog = "wavy" /\ pc = "geo"
    /\ i \in GeoRows(leny)
    /\ Step("geo")
    /\ sfile' = WaveName(i)
    /\ fs' = Create(fs, WaveName(i))
    /\ sbuf' = <<>>
    /\ j' = 0
    /\ pc' = "geo_pts"
    /\ UNCHANGED <<prog, argc, status, exc, stdout, cvars, session, lenx,
                   leny, rfile, rbuf, i, k, ran, section>>

\* Lines 95-98: one point is written.  The buffer keeps the number of
\* points written to the file, not the 960 lines.
GeoWrite ==
    /\ prog = "wavy" /\ pc = "geo_pts"
    /\ j \in Points
    /\ sbuf' = IF sbuf = <<>>
               THEN <<Chunk("pts", i, 1, 0, 0)>>
               ELSE <<[sbuf[1] EXCEPT !.b = @ + 1]>>
    /\ j' = j + 1
    /\ UNCHANGED <<prog, pc, argc, status, exc, stdout, cvars, session,
                   lenx, leny, fs, rfile, rbuf, sfile, i, k, ran, section,
                   log>>

\* Line 99.
GeoClose ==
    /\ prog = "wavy" /\ pc = "geo_pts"
    /\ j \notin Points
    /\ fs' = Flush(fs, sfile, sbuf)
    /\ sfile' = NoFile
    /\ sbuf' = <<>>
    /\ i' = i + 1
    /\ pc' = "geo"
    /\ UNCHANGED <<prog, argc, status, exc, stdout, cvars, session, lenx,
                   leny, rfile, rbuf, j, k, ran, section, log>>

\* Lines 103-109, after the loop over the wave files.
CurvesOpen ==
    /\ prog = "wavy" /\ pc = "geo"
    /\ i \notin GeoRows(leny)
    /\ Step("curves")
    /\ sfile' = CurvesTxt
    /\ fs' = Create(fs, CurvesTxt)
    /\ sbuf' = <<Chunk("CURVES", Declared(lenx, leny), 0, 0, 0)>>
    /\ k' = 1
    /\ i' = 1
    /\ j' = 1
    /\ pc' = "pass1"
    /\ UNCHANGED <<prog, argc, status, exc, stdout, cvars, session, lenx,
                   leny, rfile, rbuf, ran, section>>

\* Lines 109-113: one entry of the first pass.
Pass1Write ==
    /\ prog = "wavy" /\ pc = "pass1"
    /\ i \in Pass1Rows(leny)
    /\ j \in Cols(lenx)
    /\ sbuf' = Append(sbuf, Chunk("SPLINE", k, Elmt1(i, j, lenx), 3, i))
    /\ k' = k + 1
    /\ j' = j + 1
    /\ UNCHANGED <<prog, pc, argc, status, exc, stdout, cvars, session,
                   lenx, leny, fs, rfile, rbuf, sfile, i, ran, section, log>>

\* Line 114, after a row of the first pass.
Pass1Row ==
    /\ prog = "wavy" /\ pc = "pass1"
    /\ i \in Pass1Rows(leny)
    /\ j \notin Cols(lenx)
    /\ sbuf' = Append(sbuf, Chunk("nl", 0, 0, 0, 0))
    /\ i' = i + 1
    /\ j' = 1
    /\ UNCHANGED <<prog, pc, argc, status, exc, stdout, cvars, session,
                   lenx, leny, fs, rfile, rbuf, sfile, k, ran, section, log>>

\* Lines 116-117, after the first pass.
Pass2Begin ==
    /\ prog = "wavy" /\ pc = "pass1"
    /\ i \notin Pass1Rows(leny)
    /\ i' = 1
    /\ j' = 1
    /\ pc' = "pass2"
    /\ UNCHANGED <<prog, argc, status, exc, stdout, cvars, session, lenx,
                   leny, fs, rfile, rbuf, sfile, sbuf, k, ran, section, log>>

\* Lines 117-121: one entry of the second pass.
Pass2Write ==
    /\ prog = "wavy" /\ pc = "pass2"
    /\ i \in Pass2Rows(leny)
    /\ j \in Cols(lenx)
    /\ sbuf' = Append(sbuf, Chunk("SPLINE", k, Elmt2(i, j, lenx), 1, Wave2(i)))
    /\ k' = k + 1
    /\ j' = j + 1
    /\ UNCHANGED <<prog, pc, argc, status, exc, stdout, cvars, session,
                   lenx, leny, fs, rfile, rbuf, sfile, i, ran, section, log>>

\* Line 122, after a row of the second pass.
Pass2Row ==
    /\ prog = "wavy" /\ pc = "pass2"
    /\ i \in Pass2Rows(leny)
    /\ j \notin Cols(lenx)
    /\ sbuf' = Append(sbuf, Chunk("nl", 0, 0, 0, 0))
    /\ i' = i + 1
    /\ j' = 1
    /\ UNCHANGED <<prog, pc, argc, status, exc, stdout, cvars, session,
                   lenx, leny, fs, rfile, rbuf, sfile, k, ran, section, log>>

\* Lines 124-125, after the second pass.
CurvesClose ==
    /\ prog = "wavy" /\ pc = "pass2"
    /\ i \notin Pass2Rows(leny)
    /\ section' = Append(sbuf, Chunk("/CURVES", 0, 0, 0, 0))
    /\ fs' = Flush(fs, sfile, section')
    /\ sfile' = NoFile
    /\ sbuf' = <<>>
    /\ pc' = "cat"
    /\ UNCHANGED <<prog, argc, status, exc, stdout, cvars, session, lenx,
                   leny, rfile, rbuf, i, j, k, ran, log>>

\* What `cat a b > out` leaves in out: the shell truncates out, then cat
\* copies the inputs in order; GNU cat skips an input that is the output
\* file ("input file is output file"), and a missing input.
CatInto(f, ins, out) ==
    LET g == Create(f, out)
        Read(name) == IF name = out THEN <<>> ELSE Content(g, name)
    IN  Put(g, out, Read(ins[1]) \o Read(ins[2]))

\* Lines 129-130.  The status of the command is not looked at.
Cat ==
    /\ prog = "wavy" /\ pc = "cat"
    /\ Step("cat")
    /\ fs' = CatInto(fs, <<WavyName(session), CurvesTxt>>, session)
    /\ pc' = "rm"
    /\ UNCHANGED <<prog, argc, status, exc, stdout, cvars, session, lenx,
                   leny, rfile, rbuf, sfile, sbuf, i, j, k, ran, section>>

\* Lines 131-132, and the end of the script.
Rm ==
    /\ prog = "wavy" /\ pc = "rm"
    /\ Step("rm")
    /\ fs' = [n \in DOMAIN fs \ {CurvesTxt} |-> fs[n]]
    /\ Exit(0, "none")
    /\ UNCHANGED <<prog, argc, stdout, cvars, session, lenx, leny, rfile,
                   rbuf, sfile, sbuf, i, j, k, ran, section>>

NextWavy ==
    \/ WavyArgs
    \/ WavyUsage
    \/ OpenRect
    \/ WriteRectX
    \/ WriteRectBlank
    \/ WriteRectY
    \/ CloseRect
    \/ OpenSession
    \/ RunRectmesh
    \/ CloseSession
    \/ OpenWavy
    \/ RunMapmesh
    \/ CloseWavy
    \/ GeoOpen
    \/ GeoWrite
    \/ GeoClose
    \/ CurvesOpen
    \/ Pass1Write
    \/ Pass1Row
    \/ Pass2Begin
    \/ Pass2Write
    \/ Pass2Row
    \/ CurvesClose
    \/ Cat
    \/ Rm

-----------------------------------------------------------------------------
(* Initial states and specifications.                                      *)

ArgCounts == 1..4

InitCommon ==
    /\ pc = "args"
    /\ argc \in ArgCounts
    /\ status = -1
    /\ exc = "none"
    /\ stdout = <<>>
    /\ mode = 0
    /\ file1 = NoHeader
    /\ file2 = NoHeader
    /\ wantedBound = FALSE
    /\ wanted = <<>>
    /\ outfile = NoName
    /\ ofile = [open |-> FALSE, name |-> NoName, fields |-> <<>>, data |-> <<>>]
    /\ fs = [n \in {} |-> <<>>]
    /\ rfile = NoFile
    /\ sfile = NoFile
    /\ rbuf = <<>>
    /\ sbuf = <<>>
    /\ i = 0
    /\ j = 0
    /\ k = 0
    /\ ran = {}
    /\ section = <<>>
    /\ log = <<>>

InitCompose ==
    /\ prog = "compose"
    /\ InitCommon
    /\ session = NoName
    /\ lenx = 0
    /\ leny = 0

InitWavy ==
    /\ prog = "wavy"
    /\ InitCommon
    /\ session \in Sessions
    /\ \E g \in Grids : lenx = g[1] /\ leny = g[2]

SpecCompose == InitCompose /\ [][NextCompose]_vars

SpecWavy == InitWavy /\ [][NextWavy]_vars

-----------------------------------------------------------------------------
(* Properties of compose.py, checked under SpecCompose.                    *)

Range(s) == {s[n] : n \in 1..Len(s)}

Prompts == {"Input file contains these fields: indicate the ones you want:",
            "type in an output file name: "}

GeometryFields == {"nr", "ns", "nel", "nz"}

HeadersDiffer == \E f \in GeometryFields : file1.geometry[f] # file2.geometry[f]

\* C1: in dual-file mode, when the two headers differ in at least one of
\* nr, ns, nel, nz the run has ended with exit status 1, having printed
\* only the non-conformance message (no prompt) and opened no output file;
\* when all four are equal that message is never printed and the run goes
\* on to the output file name prompt before it can end.
C1_Conformance ==
    (prog = "compose" /\ mode = 2) =>
        IF HeadersDiffer
        THEN /\ pc = "exit"
             /\ status = 1
             /\ Range(stdout) \cap Prompts = {}
             /\ stdout = <<"The two input files do not conform">>
             /\ ~ofile.open
        ELSE /\ "The two input files do not conform" \notin Range(stdout)
             /\ pc = "exit" => "type in an output file name: " \in Range(stdout)

\* C1 witness: two headers that differ in nz alone, and the run has ended.
C1_Witness ==
    /\ prog = "compose" /\ mode = 2 /\ pc = "exit"
    /\ file1.geometry.nz # file2.geometry.nz
    /\ \A f \in GeometryFields \ {"nz"} : file1.geometry[f] = file2.geometry[f]

RECURSIVE Flatten(_)
Flatten(tokens) ==
    IF tokens = <<>> THEN <<>> ELSE Head(tokens) \o Flatten(Tail(tokens))

\* Every requested name is a field of the source header.
AllPresent == \A c \in Range(Flatten(wanted)) : c \in Range(file1.fields)

\* No field is requested twice.
NoRepeat == Cardinality(Range(Flatten(wanted))) = Len(Flatten(wanted))

FieldsSet == prog = "compose" /\ mode = 1 /\ pc \in {"print", "dict", "exit"}
             /\ wantedBound /\ wanted # <<>> /\ ofile.open

\* C2: in single-file mode, once the output header's field-name string has
\* been set from a selection of distinct names that are all in the source
\* header, it equals the whole selection in the order requested.
C2_WholeSelection ==
    (FieldsSet /\ AllPresent /\ NoRepeat) => ofile.fields = Flatten(wanted)

\* C3: in single-file mode, when a requested name is not in the source
\* header, or nothing is requested, no output file is opened and the run
\* ends in SelectionError.
C3_SelectionError ==
    (prog = "compose" /\ mode = 1 /\ wantedBound /\ (wanted = <<>> \/ ~AllPresent)) =>
        /\ ~ofile.open
        /\ pc = "exit" => exc = "SelectionError"

\* C4: in both modes, a run that was given an output file name (and, in
\* single-file mode, a non-empty selection of distinct fields of the
\* source header) ends normally, with one data array written for each
\* field of the output header.
C4_ReachesWrite ==
    (/\ prog = "compose" /\ pc = "exit" /\ outfile # NoName
     /\ mode = 1 => (wanted # <<>> /\ AllPresent /\ NoRepeat)) =>
        /\ status = 0
        /\ exc = "none"
        /\ ofile.fields # <<>>
        /\ Len(ofile.data) = Len(ofile.fields)

-----------------------------------------------------------------------------
(* Properties of wavy.py, checked under SpecWavy.                          *)

IsSpline(c) == c.kind = "SPLINE"

\* The <SPLINE> entries of the CURVES section, in emission order.
Splines == SelectSeq(section, IsSpline)

SectionWritten == prog = "wavy" /\ pc \in {"cat", "rm", "exit"} /\ section # <<>>

\* C5: the number of <SPLINE> entries emitted by the two passes equals the
\* number declared in the <CURVES NUMBER=...> line,
\* (len(x)-1)*(2*(len(y)-2)+1), which is 270 for len(x) = 11, len(y) = 15.
C5_CurveCount ==
    SectionWritten =>
        /\ section[1].kind = "CURVES"
        /\ Len(Splines) = section[1].a
        /\ Len(Splines) = (lenx - 1) * (2 * (leny - 2) + 1)
        /\ (lenx = 11 /\ leny = 15) => Len(Splines) = 270

\* C5 witness: the script's own grid, with the section complete.
C5_Witness ==
    SectionWritten /\ lenx = 11 /\ leny = 15 /\ Len(Splines) = 270

\* C6: after a run with three arguments in which both tools ran, the files
\* <session>.rect, <session>_wavy, <session> and wave1.geo..wave<len(y)-1>.geo
\* exist, curves.txt does not, and <session> holds the content of
\* <session>_wavy followed by the generated CURVES section.
C6_FinalFiles ==
    (prog = "wavy" /\ argc = 4 /\ pc = "exit" /\ ran = {"rectmesh", "mapmesh"}) =>
        /\ {RectName(session), WavyName(session), session} \subseteq DOMAIN fs
        /\ \A m \in 1..(leny - 1) : WaveName(m) \in DOMAIN fs
        /\ CurvesTxt \notin DOMAIN fs
        /\ Content(fs, session) = Content(fs, WavyName(session)) \o section

\* Files of the directory named wave<m>.geo.
WaveFiles == {n \in DOMAIN fs : \E m \in 0..(NumY + MaxLenY) : n = WaveName(m)}

\* The wave files have all been written and nothing has touched them since.
GeoStepDone == prog = "wavy" /\ pc \in {"pass1", "pass2", "cat"}

\* C7 as stated: when step 6 is complete the wave files are those of the
\* interior y-samples, indices 1..len(y)-2, each holding 960 points.
C7_InteriorOnly ==
    GeoStepDone =>
        /\ WaveFiles = {WaveName(m) : m \in 1..(leny - 2)}
        /\ \A m \in 1..(leny - 2) : fs[WaveName(m)] = <<Chunk("pts", m, 960, 0, 0)>>

\* C7 amended: when step 6 is complete the wave files are those of every
\* y-sample index except the first, 1..len(y)-1 (14 files for the 15
\* y-samples), each holding exactly 960 points.
C7_AllButFirst ==
    GeoStepDone =>
        /\ WaveFiles = {WaveName(m) : m \in 1..(leny - 1)}
        /\ \A m \in 1..(leny - 1) : fs[WaveName(m)] = <<Chunk("pts", m, 960, 0, 0)>>
        /\ leny = 15 => Cardinality(WaveFiles) = 14

\* C7 witness: the 15 y-samples of the script, wave14.geo written.
C7_Witness ==
    /\ GeoStepDone /\ leny = 15
    /\ WaveName(14) \in DOMAIN fs
    /\ fs[WaveName(14)] = <<Chunk("pts", 14, 960, 0, 0)>>

StepOrder == <<"rect", "rectmesh", "mapmesh", "geo", "curves", "cat", "rm">>

\* C8: whenever rectmesh was invoked <session>.rect was closed, whenever
\* mapmesh was invoked <session> was closed, whenever the concatenation ran
\* <session>_wavy and curves.txt were closed; and the steps taken are an
\* initial part of: rect file, rectmesh, mapmesh, geo files, curves
\* section, concatenation, removal of curves.txt.
C8_ClosedBeforeUse ==
    prog = "wavy" =>
        /\ Len(log) <= Len(StepOrder)
        /\ \A n \in 1..Len(log) :
              /\ log[n].ev = StepOrder[n]
              /\ log[n].ev = "rectmesh" => RectName(session) \notin log[n].open
              /\ log[n].ev = "mapmesh" => session \notin log[n].open
              /\ log[n].ev = "cat" => /\ WavyName(session) \notin log[n].open
                                      /\ CurvesTxt \notin log[n].open

\* C8 witness: a run that took all seven steps.
C8_Witness ==
    prog = "wavy" /\ pc = "exit" /\ status = 0 /\ Len(log) = 7

Elements == 1..((lenx - 1) * (leny - 1))

\* Row of the element grid an element lies in: rows 1..len(y)-1 of
\* len(x)-1 elements each.
RowOf(e) == ((e - 1) \div (lenx - 1)) + 1

\* Curve IDs 1..N in emission order; first pass one side-3 entry for every
\* element in ascending order, then side-1 entries only; element IDs in
\* range; no (element, side) pair twice.
NumberingCommon ==
    LET first == Cardinality(Elements)
    IN  /\ \A n \in 1..Len(Splines) : Splines[n].a = n
        /\ Len(Splines) >= first
        /\ \A n \in 1..first : Splines[n].b = n /\ Splines[n].c = 3
        /\ \A n \in (first + 1)..Len(Splines) : Splines[n].c = 1
        /\ \A n \in 1..Len(Splines) : Splines[n].b \in Elements
        /\ \A m, n \in 1..Len(Splines) :
              (Splines[m].b = Splines[n].b /\ Splines[m].c = Splines[n].c) => m = n

\* Rows whose elements have a side-1 entry.
Side1Rows == {RowOf(Splines[n].b) : n \in {m \in 1..Len(Splines) : Splines[m].c = 1}}

\* C9 as stated: the numbering is as above and the side-1 entries are for
\* elements of interior rows only (neither the first nor the last row).
C9_InteriorRows ==
    SectionWritten =>
        /\ NumberingCommon
        /\ Side1Rows \subseteq 2..(leny - 2)

\* C9 amended: the numbering is as above and the second pass emits one
\* side-1 entry for every element of every row except the first (rows
\* 2..len(y)-1, the last row included), in ascending element order.
C9_Numbering ==
    SectionWritten =>
        LET first == Cardinality(Elements)
        IN  /\ NumberingCommon
            /\ Len(Splines) = 2 * first - (lenx - 1)
            /\ \A n \in (first + 1)..Len(Splines) :
                  Splines[n].b = (n - first) + (lenx - 1)
            /\ Side1Rows = 2..(leny - 1)

\* C9 witness: the script's own grid; the last entry is curve 270 on side 1
\* of element 140, in the last row.
C9_Witness ==
    /\ SectionWritten /\ lenx = 11 /\ leny = 15
    /\ Splines[270] = Chunk("SPLINE", 270, 140, 1, 13)

\* C10: when the session file is about to be assembled, every wave file
\* named by an entry of curves.txt holds the 960 points written by the
\* generation step, every wave file is named by some entry, and the side-3
\* entry of an element of row r and the side-1 entry of the element above
\* it (row r+1, same column) name the same file, wave<r>.geo.
C10_SharedEdge ==
    (prog = "wavy" /\ pc = "cat") =>
        LET entries == SelectSeq(Content(fs, CurvesTxt), IsSpline)
            E == Range(entries)
        IN  /\ \A e \in E : /\ WaveName(e.d) \in DOMAIN fs
                            /\ fs[WaveName(e.d)] = <<Chunk("pts", e.d, 960, 0, 0)>>
            /\ \A n \in WaveFiles : \E e \in E : n = WaveName(e.d)
            /\ \A e3, e1 \in E :
                  (e3.c = 3 /\ e1.c = 1 /\ e1.b = e3.b + (lenx - 1)) =>
                      (e1.d = e3.d /\ e3.d = RowOf(e3.b))

\* C10 witness: curves.txt complete on the script's own grid, with the
\* side-1 entry of element 11 (row 2) and the side-3 entry of element 1
\* (row 1) in it.
C10_Witness ==
    /\ prog = "wavy" /\ pc = "cat" /\ lenx = 11 /\ leny = 15
    /\ Chunk("SPLINE", 1, 1, 3, 1) \in Range(Content(fs, CurvesTxt))
    /\ Chunk("SPLINE", 141, 11, 1, 1) \in Range(Content(fs, CurvesTxt))

====
